---- MODULE Spec2Model ----
(***************************************************************************)
(* Verification model of couchstore's view file merger:                    *)
(*   src/views/util.c                    record codec, dedup callbacks,    *)
(*                                       control-line readers, error text  *)
(*   src/views/bin/util.c                stdin exit listener               *)
(*   src/views/bin/couch_view_file_merger.c   the merge driver (main)      *)
(*                                                                         *)
(* Four specifications share the variables below; each leaves the          *)
(* variables of the other parts untouched.                                 *)
(*   SpecCodec   write_view_record / read_view_record on a byte stream     *)
(*   SpecDedup   the dedup callbacks under the N-way merge loop            *)
(*   SpecDriver  main() with the exit listener thread                      *)
(*   SpecMsg     view_error_msg                                            *)
(***************************************************************************)
EXTENDS Integers, Sequences, FiniteSets, TLC

VARIABLES
    \* ---- codec ----
    merge_ctx,      \* view_file_merge_ctx_t: [type]
    hostLE,         \* TRUE when the host stores integers little-endian
    rec,            \* the view_file_merge_record_t handed to write_view_record
    file,           \* the bytes of the stream between the writer and the reader
    wire,           \* the length fields of a run's header: [len, klen]
    wres,           \* what write_view_record returned
    renv,           \* the reader's environment: [devErr, mallocOk]
    rres,           \* what read_view_record returned: [ret, rec, malloced, in]
    cpc,            \* position of the codec scenario
    \* ---- dedup callbacks under the merge loop ----
    runs,           \* the N sorted input runs, each a sequence of records
    heads,          \* per run, how many of its records the merge has consumed
    output,         \* the records written to the merged output so far
    dedupCall,      \* the last dedup_view_records_merger call: [records, len, pick]
    sorterCall,     \* the last dedup_view_records_sorter call: [records, len, pick]
    dpc,            \* position of the merge scenario
    \* ---- the merge driver process ----
    stdin,          \* the control stream: [data, pos, closed]
    ctl,            \* what the control input was made of: [sel, n, lines]
    abortSent,      \* TRUE once the bytes "exit" were put on the control stream
    pc,             \* main()'s position
    view_file_type, \* main()'s locals
    num_files,
    view_files,
    dest_file,
    status,
    error,
    listener,       \* the exit listener thread: none, reading, decided, ended
    lbuf,           \* the bytes the listener's fread returned
    proc,           \* the process: running or exited
    exit_status,    \* the status the process ended with
    exitedBy,       \* who ended it: none, exit (a call in main), return, listener
    cause,          \* why main gave up, if it did
    mergeCalls,     \* calls of the merge engine
    renameCalls,    \* calls of rename()
    renamed,        \* TRUE once a rename() succeeded
    destWrites,     \* chunks the merge engine has written to the output file
    \* ---- view_error_msg ----
    errcode,        \* the couchstore_error_t handed to view_error_msg
    msg,            \* what it returned: [null, text, leaked]
    mpc             \* position of the message scenario

codecVars == <<merge_ctx, hostLE, rec, file, wire, wres, renv, rres, cpc>>

dedupVars == <<runs, heads, output, dedupCall, sorterCall, dpc>>

driverVars == <<stdin, ctl, abortSent, pc, view_file_type, num_files, view_files,
                dest_file, status, error, listener, lbuf, proc, exit_status,
                exitedBy, cause, mergeCalls, renameCalls, renamed, destWrites>>

msgVars == <<errcode, msg, mpc>>

vars == <<codecVars, dedupVars, driverVars, msgVars>>

(***************************************************************************)
(* Bounds of the model.                                                    *)
(***************************************************************************)
MaxKeyLen == 2
MaxValLen == 2
MaxRuns == 3
MaxFiles == 2
MaxChunks == 2
MaxStatus == 40

(***************************************************************************)
(* Fixed-width integers.  A uint32_t is kept as <<hi, lo>>, two 16-bit     *)
(* halves, so that the wrap-around at 2^32 is computed exactly.            *)
(***************************************************************************)
W16 == 65536

U32(n) == <<n \div W16, n % W16>>

Add32(a, b) ==
    LET lo == a[2] + b[2]
        hi == a[1] + b[1] + (lo \div W16)
    IN  <<hi % W16, lo % W16>>

Sub32(a, b) ==
    LET lo == a[2] - b[2]
        borrow == IF lo < 0 THEN 1 ELSE 0
        hi == a[1] - b[1] - borrow
    IN  <<hi % W16, lo % W16>>

\* conversion of an unsigned 32-bit value to int (two's complement)
ToInt(a) ==
    IF a[1] < 32768 THEN a[1] * W16 + a[2]
    ELSE (a[1] - W16) * W16 + a[2]

IsZero32(a) == a[1] = 0 /\ a[2] = 0

\* the four bytes of a uint32_t as the host keeps them in memory
Bytes32(a) ==
    LET le == <<a[2] % 256, a[2] \div 256, a[1] % 256, a[1] \div 256>>
    IN  IF hostLE THEN le ELSE <<le[4], le[3], le[2], le[1]>>

FromBytes32(b) ==
    LET le == IF hostLE THEN b ELSE <<b[4], b[3], b[2], b[1]>>
    IN  <<le[3] + 256 * le[4], le[1] + 256 * le[2]>>

\* the two bytes of a uint16_t as the host keeps them in memory
Bytes16(v) ==
    IF hostLE THEN <<v % 256, v \div 256>> ELSE <<v \div 256, v % 256>>

FromBytes16(b) ==
    IF hostLE THEN b[1] + 256 * b[2] ELSE b[2] + 256 * b[1]

\* htons / ntohs: a byte swap on a little-endian host, nothing otherwise
htons(v) == IF hostLE THEN (v % 256) * 256 + (v \div 256) ELSE v

ntohs(v) == htons(v)

(***************************************************************************)
(* file_merger_error_t and the record types.                               *)
(***************************************************************************)
FILE_MERGER_SUCCESS == 0
FILE_MERGER_ERROR_OPEN_FILE == -1
FILE_MERGER_ERROR_FILE_READ == -2
FILE_MERGER_ERROR_FILE_WRITE == -3
FILE_MERGER_ERROR_BAD_ARG == -4
FILE_MERGER_ERROR_ALLOC == -5

INITIAL_BUILD_VIEW_RECORD == "INITIAL_BUILD_VIEW_RECORD"
INCREMENTAL_UPDATE_VIEW_RECORD == "INCREMENTAL_UPDATE_VIEW_RECORD"

RecordTypes == {INITIAL_BUILD_VIEW_RECORD, INCREMENTAL_UPDATE_VIEW_RECORD}

NoRecord == [op |-> 0, ksize |-> 0, vsize |-> U32(0), buf |-> <<>>, none |-> TRUE]

\* a view_file_merge_record_t: op, ksize, vsize and the key/value bytes in buf
Record(op, key, value) ==
    [op |-> op, ksize |-> Len(key), vsize |-> U32(Len(value)),
     buf |-> key \o value, none |-> FALSE]

(***************************************************************************)
(* stdio on a byte stream.  A FILE is [data, pos, eof].                    *)
(* fread(ptr, size, 1, f) gives 1 only when size > 0 and size bytes are    *)
(* left; a zero size gives 0 and leaves the stream as it is; a short read  *)
(* consumes what is left and sets the end-of-file indicator.               *)
(***************************************************************************)
OpenFile(data) == [data |-> data, pos |-> 0, eof |-> FALSE]

Remaining(f) == Len(f.data) - f.pos

\* size is a size_t given as <<hi, lo>>
fread(f, size) ==
    IF IsZero32(size) THEN [n |-> 0, bytes |-> <<>>, f |-> f]
    ELSE IF size[1] = 0 /\ size[2] <= Remaining(f)
    THEN [n |-> 1,
          bytes |-> SubSeq(f.data, f.pos + 1, f.pos + size[2]),
          f |-> [f EXCEPT !.pos = f.pos + size[2]]]
    ELSE [n |-> 0, bytes |-> <<>>,
          f |-> [f EXCEPT !.pos = Len(f.data), !.eof = TRUE]]

\* fwrite(ptr, size, 1, out): 0 for a zero size or a failing device
fwrite(out, bytes, devOk) ==
    IF Len(bytes) = 0 \/ ~devOk THEN [n |-> 0, out |-> out]
    ELSE [n |-> 1, out |-> out \o bytes]

(***************************************************************************)
(* read_view_record.  uninit is the indeterminate content of the local     *)
(* `op` when the mode reads no operation byte; devErr makes the first      *)
(* fread fail on a device error instead of the end of the stream;          *)
(* mallocOk is whether malloc gives memory.                                *)
(***************************************************************************)
ReadResult(ret, r, malloced, f) ==
    [ret |-> ret, rec |-> r, malloced |-> malloced, in |-> f]

read_view_record(in, ctx, uninit, devErr, mallocOk) ==
    LET incr == ctx.type = INCREMENTAL_UPDATE_VIEW_RECORD
        r1 == fread(in, U32(4))
        r2 == IF incr THEN fread(r1.f, U32(1))
              ELSE [n |-> 1, bytes |-> <<uninit>>, f |-> r1.f]
        r3 == fread(r2.f, U32(2))
    IN  IF devErr THEN ReadResult(FILE_MERGER_ERROR_FILE_READ, NoRecord, FALSE, in)
        ELSE IF r1.n # 1
        THEN IF r1.f.eof THEN ReadResult(0, NoRecord, FALSE, r1.f)
             ELSE ReadResult(FILE_MERGER_ERROR_FILE_READ, NoRecord, FALSE, r1.f)
        ELSE IF r2.n # 1
        THEN ReadResult(FILE_MERGER_ERROR_FILE_READ, NoRecord, FALSE, r2.f)
        ELSE IF r3.n # 1
        THEN ReadResult(FILE_MERGER_ERROR_FILE_READ, NoRecord, FALSE, r3.f)
        ELSE
        LET len == FromBytes32(r1.bytes)
            op == r2.bytes[1]
            klen == ntohs(FromBytes16(r3.bytes))
            vlen0 == Sub32(Sub32(len, U32(2)), U32(klen))
            vlen == IF incr THEN Sub32(vlen0, U32(1)) ELSE vlen0
            \* klen + vlen is computed in unsigned int
            sum == Add32(U32(klen), vlen)
            r4 == fread(r3.f, sum)
        IN  IF ~mallocOk
            THEN ReadResult(FILE_MERGER_ERROR_ALLOC, NoRecord, FALSE, r3.f)
            ELSE IF r4.n # 1
            THEN ReadResult(FILE_MERGER_ERROR_FILE_READ, NoRecord, TRUE, r4.f)
            ELSE ReadResult(ToInt(sum),
                            [op |-> op, ksize |-> klen, vsize |-> vlen,
                             buf |-> r4.bytes, none |-> FALSE],
                            TRUE, r4.f)

(***************************************************************************)
(* write_view_record.  failAt is the fwrite call (1..4) the device fails,  *)
(* 0 for none.                                                             *)
(***************************************************************************)
WriteResult(ret, out) == [ret |-> ret, out |-> out]

write_view_record(out, r, ctx, failAt) ==
    LET incr == ctx.type = INCREMENTAL_UPDATE_VIEW_RECORD
        klen == htons(r.ksize % W16)
        len0 == Add32(Add32(U32(2), U32(r.ksize)), r.vsize)
        len == IF incr THEN Add32(len0, U32(1)) ELSE len0
        w1 == fwrite(out, Bytes32(len), failAt # 1)
        w2 == IF incr THEN fwrite(w1.out, <<r.op>>, failAt # 2)
              ELSE [n |-> 1, out |-> w1.out]
        w3 == fwrite(w2.out, Bytes16(klen), failAt # 3)
        w4 == fwrite(w3.out, r.buf, failAt # 4)
    IN  IF w1.n # 1 THEN WriteResult(FILE_MERGER_ERROR_FILE_WRITE, w1.out)
        ELSE IF w2.n # 1 THEN WriteResult(FILE_MERGER_ERROR_FILE_WRITE, w2.out)
        ELSE IF w3.n # 1 THEN WriteResult(FILE_MERGER_ERROR_FILE_WRITE, w3.out)
        ELSE IF w4.n # 1 THEN WriteResult(FILE_MERGER_ERROR_FILE_WRITE, w4.out)
        ELSE WriteResult(FILE_MERGER_SUCCESS, w4.out)

VIEW_RECORD_KEY(r) == SubSeq(r.buf, 1, r.ksize)

VIEW_RECORD_VAL(r) == SubSeq(r.buf, r.ksize + 1, Len(r.buf))

(***************************************************************************)
(* The codec scenario: a record is written to a stream (or the stream is   *)
(* an input run of arbitrary header bytes), the stream may lose its tail,  *)
(* and read_view_record reads it back.                                     *)
(***************************************************************************)
KeyBytes == {0, 65}
OpCodes == {1, 2}
WireLengths == {0, 1, 2, 3, 5, 10}

SeqsUpTo(S, n) == UNION {[1..k -> S] : k \in 0..n}

NoRead == ReadResult(0, NoRecord, FALSE, OpenFile(<<>>))

\* the writer encodes rec at the end of the (empty) output stream
WriteRecord ==
    /\ cpc = "start"
    /\ \E failAt \in 0..4 :
          LET w == write_view_record(file, rec, merge_ctx, failAt)
          IN  /\ file' = w.out
              /\ wres' = w.ret
              /\ cpc' = IF failAt = 0 THEN "written" ELSE "writefail"
    /\ UNCHANGED <<merge_ctx, hostLE, rec, wire, renv, rres>>
    /\ UNCHANGED <<dedupVars, driverVars, msgVars>>

\* the input run holds a header whose length fields are whatever the
\* producer (or a corruption) put there, followed by n payload bytes
ForgeRun ==
    /\ cpc = "start"
    /\ \E len \in WireLengths, klen \in WireLengths, n \in 0..(MaxKeyLen + MaxValLen) :
          /\ file' = Bytes32(U32(len))
                      \o (IF merge_ctx.type = INCREMENTAL_UPDATE_VIEW_RECORD
                          THEN <<rec.op>> ELSE <<>>)
                      \o Bytes16(htons(klen))
                      \o [i \in 1..n |-> 65]
          /\ wire' = [len |-> len, klen |-> klen]
    /\ cpc' = "forged"
    /\ UNCHANGED <<merge_ctx, hostLE, rec, wres, renv, rres>>
    /\ UNCHANGED <<dedupVars, driverVars, msgVars>>

\* the stream ends early: only its first n bytes reach the reader
TruncateRun ==
    /\ cpc = "written"
    /\ \E n \in 0..(Len(file) - 1) : file' = SubSeq(file, 1, n)
    /\ cpc' = "truncated"
    /\ UNCHANGED <<merge_ctx, hostLE, rec, wire, wres, renv, rres>>
    /\ UNCHANGED <<dedupVars, driverVars, msgVars>>

ReadRecord ==
    /\ cpc \in {"written", "forged", "truncated"}
    /\ \E uninit \in OpCodes \cup {0}, devErr \in BOOLEAN, mallocOk \in BOOLEAN :
          /\ rres' = read_view_record(OpenFile(file), merge_ctx, uninit, devErr, mallocOk)
          /\ renv' = [devErr |-> devErr, mallocOk |-> mallocOk]
    /\ cpc' = IF cpc = "written" THEN "read"
              ELSE IF cpc = "forged" THEN "readforged" ELSE "readtruncated"
    /\ UNCHANGED <<merge_ctx, hostLE, rec, file, wire, wres>>
    /\ UNCHANGED <<dedupVars, driverVars, msgVars>>

CodecNext == WriteRecord \/ ForgeRun \/ TruncateRun \/ ReadRecord


(***************************************************************************)
(* Key comparison.  ebin_cmp is the raw byte-string order: memcmp over the *)
(* common prefix, then the shorter string first.                           *)
(***************************************************************************)
RECURSIVE memcmp(_, _, _, _)
memcmp(a, b, i, n) ==
    IF i > n THEN 0
    ELSE IF a[i] < b[i] THEN -1
    ELSE IF a[i] > b[i] THEN 1
    ELSE memcmp(a, b, i + 1, n)

ebin_cmp(e1, e2) ==
    LET size == IF Len(e2) < Len(e1) THEN Len(e2) ELSE Len(e1)
        cmp == memcmp(e1, e2, 1, size)
    IN  IF cmp = 0
        THEN IF size < Len(e2) THEN -1
             ELSE IF size < Len(e1) THEN 1 ELSE 0
        ELSE cmp

view_id_cmp(key1, key2) == ebin_cmp(key1, key2)

\* merge_ctx->key_cmp_fun is view_id_cmp here (identifier records)
compare_view_records(r1, r2) ==
    view_id_cmp(VIEW_RECORD_KEY(r1), VIEW_RECORD_KEY(r2))

(***************************************************************************)
(* The dedup callbacks.  records is a sequence of file_merger_record_t     *)
(* entries [record, filenum]; C position p is element p + 1 here.          *)
(***************************************************************************)
dedup_view_records_sorter_smaller(records, len) ==
    IF records[1].record.op > records[2].record.op THEN 1 ELSE 0

dedup_view_records_sorter(records, len) ==
    IF records[1].record.op < records[2].record.op THEN 1 ELSE 0

RECURSIVE MergerLoop(_, _, _, _)
MergerLoop(records, len, i, max) ==
    IF i < len
    THEN MergerLoop(records, len, i + 1,
                    IF records[max + 1].filenum < records[i + 1].filenum
                    THEN i ELSE max)
    ELSE max

RECURSIVE MergerLoopMin(_, _, _, _)
MergerLoopMin(records, len, i, max) ==
    IF i < len
    THEN MergerLoopMin(records, len, i + 1,
                       IF records[max + 1].filenum > records[i + 1].filenum
                       THEN i ELSE max)
    ELSE max

dedup_view_records_merger_lowest(records, len) == MergerLoopMin(records, len, 1, 0)

dedup_view_records_merger(records, len) == MergerLoop(records, len, 1, 0)

(***************************************************************************)
(* The merge scenario.  The N-way merge loop itself (file_merger.c) takes  *)
(* the smallest pending record of the runs under compare_view_records,     *)
(* gathers every pending record equal to it, asks the dedup callback for   *)
(* the survivor when there are several, writes the survivor and drops the  *)
(* others.                                                                 *)
(***************************************************************************)
DedupKeys == {<<65>>, <<65, 65>>, <<66>>}
SorterOps == {0, 1, 2, 255}

\* the ascending sequences of distinct keys: what a sort phase produces
SortedKeySeqs ==
    {s \in UNION {[1..k -> DedupKeys] : k \in 0..Cardinality(DedupKeys)} :
        \A i \in 1..(Len(s) - 1) : view_id_cmp(s[i], s[i + 1]) < 0}

\* run i (file number i - 1) holds, for each of its keys, a record whose
\* value names the run
RunOf(i, keys) == [j \in 1..Len(keys) |-> Record(1, keys[j], <<i>>)]

NoCall == [records |-> <<>>, len |-> 0, pick |-> 0]

Pending == {i \in 1..Len(runs) : heads[i] < Len(runs[i])}

HeadOf(i) == runs[i][heads[i] + 1]

\* the orders in which the loop may hold the members of a group
Orders(S) == {o \in [1..Cardinality(S) -> S] : \A a, b \in 1..Cardinality(S) :
                                                  a # b => o[a] # o[b]}

\* the sort phase (another program, which ends there) meets two records of
\* one batch with the same key
LocalDedup ==
    /\ dpc = "start"
    /\ \E op1 \in SorterOps, op2 \in SorterOps :
          LET records == <<[record |-> Record(op1, <<65>>, <<1>>), filenum |-> 0],
                           [record |-> Record(op2, <<65>>, <<2>>), filenum |-> 0]>>
          IN  sorterCall' = [records |-> records, len |-> 2,
                             pick |-> dedup_view_records_sorter(records, 2)]
    /\ dpc' = "sorted"
    /\ UNCHANGED <<runs, heads, output, dedupCall>>
    /\ UNCHANGED <<codecVars, driverVars, msgVars>>

\* one round of the merge loop
MergeStep ==
    /\ dpc \in {"start", "merge"}
    /\ Pending # {}
    /\ \E m \in Pending :
          /\ \A i \in Pending : compare_view_records(HeadOf(m), HeadOf(i)) <= 0
          /\ LET group == {i \in Pending : compare_view_records(HeadOf(m), HeadOf(i)) = 0}
             IN  /\ IF Cardinality(group) = 1
                    THEN /\ output' = Append(output, HeadOf(m))
                         /\ UNCHANGED dedupCall
                    ELSE \E o \in Orders(group) :
                            LET records == [j \in 1..Cardinality(group) |->
                                               [record |-> HeadOf(o[j]), filenum |-> o[j] - 1]]
                                pick == dedup_view_records_merger(records, Len(records))
                            IN  /\ dedupCall' = [records |-> records,
                                                 len |-> Len(records), pick |-> pick]
                                /\ output' = Append(output, records[pick + 1].record)
                 /\ heads' = [i \in 1..Len(runs) |->
                                 IF i \in group THEN heads[i] + 1 ELSE heads[i]]
    /\ dpc' = "merge"
    /\ UNCHANGED <<runs, sorterCall>>
    /\ UNCHANGED <<codecVars, driverVars, msgVars>>

\* every run is exhausted: the merge returns
MergeDone ==
    /\ dpc \in {"start", "merge"}
    /\ Pending = {}
    /\ dpc' = "done"
    /\ UNCHANGED <<runs, heads, output, dedupCall, sorterCall>>
    /\ UNCHANGED <<codecVars, driverVars, msgVars>>

DedupNext == LocalDedup \/ MergeStep \/ MergeDone

(***************************************************************************)
(* The control stream.  Characters are one-character strings; the stream   *)
(* is [data, pos, closed]: data is all that was ever sent, pos is how much *)
(* of it stdio has handed out, closed is the end of the stream.  A read    *)
(* that needs more than is there waits while the stream is open.           *)
(***************************************************************************)
LINE_BUF_SIZE == 8192

NL == "\n"

IsSpace(c) == c \in {NL, " "}

DigitChars == <<"0", "1", "2", "3", "4", "5", "6", "7", "8", "9">>

IsDigit(c) == \E d \in 1..10 : DigitChars[d] = c

DigitVal(c) == (CHOOSE d \in 1..10 : DigitChars[d] = c) - 1

Left(f) == Len(f.data) - f.pos

RECURSIVE SkipSpace(_, _)
SkipSpace(data, p) ==
    IF p < Len(data) /\ IsSpace(data[p + 1]) THEN SkipSpace(data, p + 1) ELSE p

RECURSIVE ScanDigits(_, _, _)
ScanDigits(data, p, acc) ==
    IF p < Len(data) /\ IsDigit(data[p + 1])
    THEN ScanDigits(data, p + 1, acc * 10 + DigitVal(data[p + 1]))
    ELSE [pos |-> p, val |-> acc]

\* a scan is over when it met a character it does not take, or the end
ScanOver(f, p) == f.closed \/ p < Len(f.data)

\* fscanf(stdin, "%c\n", &c): one character, then any white space
fscanf_c(f) ==
    IF Left(f) = 0
    THEN [over |-> f.closed, n |-> -1, c |-> "", f |-> f]
    ELSE LET p == SkipSpace(f.data, f.pos + 1)
         IN  [over |-> ScanOver(f, p), n |-> 1, c |-> f.data[f.pos + 1],
              f |-> [f EXCEPT !.pos = p]]

\* fscanf(stdin, "%d\n", &n): white space, an optional sign, digits, then
\* any white space
fscanf_d(f) ==
    LET p0 == SkipSpace(f.data, f.pos)
        signed == p0 < Len(f.data) /\ f.data[p0 + 1] \in {"-", "+"}
        neg == signed /\ f.data[p0 + 1] = "-"
        p1 == IF signed THEN p0 + 1 ELSE p0
        d == ScanDigits(f.data, p1, 0)
        p2 == SkipSpace(f.data, d.pos)
    IN  IF d.pos = p1
        THEN [over |-> ScanOver(f, p1),
              n |-> IF p0 = Len(f.data) THEN -1 ELSE 0, val |-> 0,
              f |-> [f EXCEPT !.pos = p1]]
        ELSE [over |-> ScanOver(f, p2), n |-> 1,
              val |-> IF neg THEN 0 - d.val ELSE d.val,
              f |-> [f EXCEPT !.pos = p2]]

\* fgets(buf, size, in): up to size - 1 characters, through a newline
RECURSIVE fgets_end(_, _, _)
fgets_end(data, p, room) ==
    IF room = 0 \/ p = Len(data) THEN p
    ELSE IF data[p + 1] = NL THEN p + 1
    ELSE fgets_end(data, p + 1, room - 1)

couchstore_read_line(f, size) ==
    LET e == fgets_end(f.data, f.pos, size - 1)
        got == SubSeq(f.data, f.pos + 1, e)
        full == e > f.pos /\ (f.data[e] = NL \/ e - f.pos = size - 1)
        line == IF Len(got) >= 1 /\ got[Len(got)] = NL
                THEN SubSeq(got, 1, Len(got) - 1) ELSE got
    IN  [over |-> full \/ f.closed,
         null |-> Len(got) = 0,
         buf |-> line,
         f |-> [f EXCEPT !.pos = e]]

\* sprintf("%d"): the decimal digits of n, most significant first
RECURSIVE Digits(_)
Digits(n) ==
    IF n < 10 THEN <<DigitChars[n + 1]>>
    ELSE Append(Digits(n \div 10), DigitChars[(n % 10) + 1])

sprintf_d(n) == IF n < 0 THEN <<"-">> \o Digits(0 - n) ELSE Digits(n)

(***************************************************************************)
(* The exit listener (bin/util.c).                                         *)
(***************************************************************************)
ExitToken == <<"e", "x", "i", "t">>

\* what the thread does with the n bytes its fread returned
exit_thread_helper_status0(buf) ==
    [exit |-> Len(buf) = 4 /\ buf = ExitToken, status |-> 0]

exit_thread_helper_any4(buf) ==
    [exit |-> Len(buf) = 4, status |-> 1]

exit_thread_helper(buf) ==
    [exit |-> Len(buf) = 4 /\ buf = ExitToken, status |-> 1]

\* ret is what cb_create_thread returned
start_exit_listener(ret) == IF ret < 0 THEN 0 - ret ELSE ret

ThreadCreateResults == {0, -1, 11}

(***************************************************************************)
(* main() of couch_view_file_merger.                                       *)
(***************************************************************************)
MERGE_ERROR_CODE(Err) == 100 + Err

EngineErrors == {FILE_MERGER_ERROR_OPEN_FILE, FILE_MERGER_ERROR_FILE_READ,
                 FILE_MERGER_ERROR_FILE_WRITE, FILE_MERGER_ERROR_BAD_ARG,
                 FILE_MERGER_ERROR_ALLOC}

Running == proc = "running"

\* line 53
BadFileType(c) == c # "i" /\ c # "v"

\* line 62, and its off-by-one
BadNumFilesNegative(n) == n < 0

BadNumFiles(n) == n <= 0

\* exit(code) called from main
ExitMain(code, why) ==
    /\ proc' = "exited"
    /\ exit_status' = code
    /\ exitedBy' = "exit"
    /\ cause' = why

\* lines 49-56
ReadType ==
    /\ Running /\ pc = "read_type"
    /\ LET r == fscanf_c(stdin)
       IN  /\ r.over
           /\ stdin' = r.f
           /\ IF r.n # 1
              THEN /\ ExitMain(1, "type_read")
                   /\ UNCHANGED <<pc, view_file_type>>
              ELSE IF BadFileType(r.c)
              THEN /\ ExitMain(1, "type_bad")
                   /\ view_file_type' = r.c
                   /\ UNCHANGED pc
              ELSE /\ view_file_type' = r.c
                   /\ pc' = "read_num"
                   /\ UNCHANGED <<proc, exit_status, exitedBy, cause>>
    /\ UNCHANGED <<ctl, abortSent, num_files, view_files, dest_file, status, error,
                   listener, lbuf, mergeCalls, renameCalls, renamed, destWrites>>
    /\ UNCHANGED <<codecVars, dedupVars, msgVars>>

\* lines 58-65
ReadNum ==
    /\ Running /\ pc = "read_num"
    /\ LET r == fscanf_d(stdin)
       IN  /\ r.over
           /\ stdin' = r.f
           /\ IF r.n # 1
              THEN /\ ExitMain(1, "num_read")
                   /\ UNCHANGED <<pc, num_files>>
              ELSE IF BadNumFiles(r.val)
              THEN /\ ExitMain(1, "num_bad")
                   /\ num_files' = r.val
                   /\ UNCHANGED pc
              ELSE /\ num_files' = r.val
                   /\ pc' = "alloc_files"
                   /\ UNCHANGED <<proc, exit_status, exitedBy, cause>>
    /\ UNCHANGED <<ctl, abortSent, view_file_type, view_files, dest_file, status,
                   error, listener, lbuf, mergeCalls, renameCalls, renamed, destWrites>>
    /\ UNCHANGED <<codecVars, dedupVars, msgVars>>

\* lines 67-71
AllocFiles ==
    /\ Running /\ pc = "alloc_files"
    /\ \E mallocOk \in BOOLEAN :
          IF mallocOk
          THEN /\ pc' = IF 0 < num_files THEN "read_files" ELSE "read_dest"
               /\ UNCHANGED <<proc, exit_status, exitedBy, cause>>
          ELSE /\ ExitMain(1, "alloc")
               /\ UNCHANGED pc
    /\ UNCHANGED <<stdin, ctl, abortSent, view_file_type, num_files, view_files,
                   dest_file, status, error, listener, lbuf, mergeCalls,
                   renameCalls, renamed, destWrites>>
    /\ UNCHANGED <<codecVars, dedupVars, msgVars>>

\* lines 73-92, one turn of the loop
ReadFile ==
    /\ Running /\ pc = "read_files"
    /\ \E mallocOk \in BOOLEAN :
          IF ~mallocOk
          THEN /\ ExitMain(1, "alloc")
               /\ UNCHANGED <<pc, stdin, view_files>>
          ELSE LET r == couchstore_read_line(stdin, LINE_BUF_SIZE)
               IN  /\ r.over
                   /\ stdin' = r.f
                   /\ IF r.null
                      THEN /\ ExitMain(1, "file_read")
                           /\ UNCHANGED <<pc, view_files>>
                      ELSE /\ view_files' = Append(view_files, r.buf)
                           /\ pc' = IF Len(view_files) + 1 < num_files
                                    THEN "read_files" ELSE "read_dest"
                           /\ UNCHANGED <<proc, exit_status, exitedBy, cause>>
    /\ UNCHANGED <<ctl, abortSent, view_file_type, num_files, dest_file, status,
                   error, listener, lbuf, mergeCalls, renameCalls, renamed, destWrites>>
    /\ UNCHANGED <<codecVars, dedupVars, msgVars>>

\* lines 94-98
ReadDest ==
    /\ Running /\ pc = "read_dest"
    /\ LET r == couchstore_read_line(stdin, LINE_BUF_SIZE)
       IN  /\ r.over
           /\ stdin' = r.f
           /\ IF r.null
              THEN /\ status' = 1
                   /\ cause' = "dest_read"
                   /\ pc' = "finished"
                   /\ UNCHANGED dest_file
              ELSE /\ dest_file' = r.buf
                   /\ pc' = "start_listener"
                   /\ UNCHANGED <<status, cause>>
    /\ UNCHANGED <<ctl, abortSent, view_file_type, num_files, view_files, error,
                   listener, lbuf, proc, exit_status, exitedBy, mergeCalls,
                   renameCalls, renamed, destWrites>>
    /\ UNCHANGED <<codecVars, dedupVars, msgVars>>

\* lines 100-104
StartListener ==
    /\ Running /\ pc = "start_listener"
    /\ \E ret \in ThreadCreateResults :
          /\ status' = start_exit_listener(ret)
          /\ IF status' # 0
             THEN /\ cause' = "listener"
                  /\ pc' = "finished"
                  /\ UNCHANGED listener
             ELSE /\ listener' = "reading"
                  /\ pc' = "dispatch"
                  /\ UNCHANGED cause
    /\ UNCHANGED <<stdin, ctl, abortSent, view_file_type, num_files, view_files,
                   dest_file, error, lbuf, proc, exit_status, exitedBy, mergeCalls,
                   renameCalls, renamed, destWrites>>
    /\ UNCHANGED <<codecVars, dedupVars, msgVars>>

\* which way line 106 goes: the merge engine, rename(), or the switch's default
DispatchFromOne(n, type) ==
    IF n >= 1
    THEN IF type \in {"i", "v"} THEN "merge" ELSE "unknown"
    ELSE "rename"

Dispatch(n, type) ==
    IF n > 1
    THEN IF type \in {"i", "v"} THEN "merge" ELSE "unknown"
    ELSE "rename"

\* lines 106-119: the merge engine is entered
CallMerge ==
    /\ Running /\ pc = "dispatch"
    /\ Dispatch(num_files, view_file_type) # "rename"
    /\ IF Dispatch(num_files, view_file_type) = "merge"
       THEN /\ mergeCalls' = mergeCalls + 1
            /\ pc' = "merging"
            /\ UNCHANGED <<status, cause>>
       ELSE /\ status' = 1
            /\ cause' = "unknown_type"
            /\ pc' = "finished"
            /\ UNCHANGED mergeCalls
    /\ UNCHANGED <<stdin, ctl, abortSent, view_file_type, num_files, view_files,
                   dest_file, error, listener, lbuf, proc, exit_status, exitedBy,
                   renameCalls, renamed, destWrites>>
    /\ UNCHANGED <<codecVars, dedupVars, msgVars>>

\* the merge engine writes one more piece of the output file
EngineWrite ==
    /\ Running /\ pc = "merging"
    /\ destWrites < MaxChunks
    /\ destWrites' = destWrites + 1
    /\ UNCHANGED <<stdin, ctl, abortSent, pc, view_file_type, num_files, view_files,
                   dest_file, status, error, listener, lbuf, proc, exit_status,
                   exitedBy, cause, mergeCalls, renameCalls, renamed>>
    /\ UNCHANGED <<codecVars, dedupVars, msgVars>>

\* the merge engine returns; lines 121-129
EngineReturn ==
    /\ Running /\ pc = "merging"
    /\ \E err \in EngineErrors \cup {FILE_MERGER_SUCCESS} :
          /\ error' = err
          /\ IF err = FILE_MERGER_SUCCESS
             THEN UNCHANGED <<status, cause>>
             ELSE /\ status' = MERGE_ERROR_CODE(err)
                  /\ cause' = "merge"
    /\ pc' = "finished"
    /\ UNCHANGED <<stdin, ctl, abortSent, view_file_type, num_files, view_files,
                   dest_file, listener, lbuf, proc, exit_status, exitedBy,
                   mergeCalls, renameCalls, renamed, destWrites>>
    /\ UNCHANGED <<codecVars, dedupVars, msgVars>>

\* lines 130-137
RenameSole ==
    /\ Running /\ pc = "dispatch"
    /\ Dispatch(num_files, view_file_type) = "rename"
    /\ renameCalls' = renameCalls + 1
    /\ \E ok \in BOOLEAN :
          IF ok
          THEN /\ renamed' = TRUE
               /\ UNCHANGED <<status, cause>>
          ELSE /\ status' = 1
               /\ cause' = "rename"
               /\ UNCHANGED renamed
    /\ pc' = "finished"
    /\ UNCHANGED <<stdin, ctl, abortSent, view_file_type, num_files, view_files,
                   dest_file, error, listener, lbuf, proc, exit_status, exitedBy,
                   mergeCalls, destWrites>>
    /\ UNCHANGED <<codecVars, dedupVars, msgVars>>

\* lines 139-145: main returns status
Finished ==
    /\ Running /\ pc = "finished"
    /\ proc' = "exited"
    /\ exit_status' = status
    /\ exitedBy' = "return"
    /\ UNCHANGED <<stdin, ctl, abortSent, pc, view_file_type, num_files, view_files,
                   dest_file, status, error, listener, lbuf, cause, mergeCalls,
                   renameCalls, renamed, destWrites>>
    /\ UNCHANGED <<codecVars, dedupVars, msgVars>>

\* bin/util.c line 31: the listener's fread(buf, 1, 4, stdin) returns
ListenerRead ==
    /\ Running /\ listener = "reading"
    /\ Left(stdin) >= 4 \/ stdin.closed
    /\ LET n == IF Left(stdin) >= 4 THEN 4 ELSE Left(stdin)
       IN  /\ lbuf' = SubSeq(stdin.data, stdin.pos + 1, stdin.pos + n)
           /\ stdin' = [stdin EXCEPT !.pos = stdin.pos + n]
    /\ listener' = "decided"
    /\ UNCHANGED <<ctl, abortSent, pc, view_file_type, num_files, view_files,
                   dest_file, status, error, proc, exit_status, exitedBy, cause,
                   mergeCalls, renameCalls, renamed, destWrites>>
    /\ UNCHANGED <<codecVars, dedupVars, msgVars>>

\* bin/util.c lines 31-33: exit(1) on "exit", else the thread ends
ListenerAct ==
    /\ Running /\ listener = "decided"
    /\ LET r == exit_thread_helper(lbuf)
       IN  IF r.exit
           THEN /\ proc' = "exited"
                /\ exit_status' = r.status
                /\ exitedBy' = "listener"
                /\ UNCHANGED listener
           ELSE /\ listener' = "ended"
                /\ UNCHANGED <<proc, exit_status, exitedBy>>
    /\ UNCHANGED <<stdin, ctl, abortSent, pc, view_file_type, num_files, view_files,
                   dest_file, status, error, lbuf, cause, mergeCalls, renameCalls,
                   renamed, destWrites>>
    /\ UNCHANGED <<codecVars, dedupVars, msgVars>>

\* the supervising process writes the bytes "exit" to the control stream
SendExit ==
    /\ Running /\ ~abortSent /\ ~stdin.closed
    /\ stdin' = [stdin EXCEPT !.data = @ \o ExitToken]
    /\ abortSent' = TRUE
    /\ UNCHANGED <<ctl, pc, view_file_type, num_files, view_files, dest_file, status,
                   error, listener, lbuf, proc, exit_status, exitedBy, cause,
                   mergeCalls, renameCalls, renamed, destWrites>>
    /\ UNCHANGED <<codecVars, dedupVars, msgVars>>

\* the supervising process closes the control stream
CloseStdin ==
    /\ Running /\ ~stdin.closed
    /\ stdin' = [stdin EXCEPT !.closed = TRUE]
    /\ UNCHANGED <<ctl, abortSent, pc, view_file_type, num_files, view_files,
                   dest_file, status, error, listener, lbuf, proc, exit_status,
                   exitedBy, cause, mergeCalls, renameCalls, renamed, destWrites>>
    /\ UNCHANGED <<codecVars, dedupVars, msgVars>>

MainStep ==
    \/ ReadType \/ ReadNum \/ AllocFiles \/ ReadFile \/ ReadDest \/ StartListener
    \/ CallMerge \/ EngineWrite \/ EngineReturn \/ RenameSole \/ Finished

DriverNext == MainStep \/ ListenerRead \/ ListenerAct \/ SendExit \/ CloseStdin

\* the control input: a selector line, a count line and identifier lines
Selectors == {"i", "v", "x", ""}
CountKinds == {"int", "junk", "none"}

Line(chars) == IF chars = <<>> THEN <<>> ELSE chars \o <<NL>>

CountLine(kind, n) ==
    IF kind = "int" THEN Line(sprintf_d(n))
    ELSE IF kind = "junk" THEN Line(<<"z">>) ELSE <<>>

RECURSIVE NameLines(_)
NameLines(k) ==
    IF k = 0 THEN <<>> ELSE NameLines(k - 1) \o Line(<<"f">> \o sprintf_d(k))

ControlInput(c) ==
    Line(IF c.sel = "" THEN <<>> ELSE <<c.sel>>) \o CountLine(c.kind, c.n)
    \o NameLines(c.lines)

(***************************************************************************)
(* view_error_msg.  strdupOk and mallocOk are whether strdup and malloc    *)
(* give memory.  The switch has no break after the first case: control     *)
(* runs on into default, which overwrites error_msg.                       *)
(***************************************************************************)
COUCHSTORE_SUCCESS == 0
COUCHSTORE_ERROR_REDUCTION_TOO_LARGE == -13

ReductionTooLarge ==
    <<"r", "e", "d", "u", "c", "t", "i", "o", "n", " ",
      "t", "o", "o", " ", "l", "a", "r", "g", "e">>

Message(null, text, leaked) == [null |-> null, text |-> text, leaked |-> leaked]

view_error_msg(r, strdupOk, mallocOk) ==
    IF r = COUCHSTORE_SUCCESS THEN Message(TRUE, <<>>, FALSE)
    ELSE LET first == IF r = COUCHSTORE_ERROR_REDUCTION_TOO_LARGE /\ strdupOk
                      THEN Message(FALSE, ReductionTooLarge, FALSE)
                      ELSE Message(TRUE, <<>>, FALSE)
         IN  \* default: reached by every case
             IF mallocOk THEN Message(FALSE, sprintf_d(r), ~first.null)
             ELSE Message(TRUE, <<>>, ~first.null)

CallViewErrorMsg ==
    /\ mpc = "start"
    /\ \E strdupOk \in BOOLEAN, mallocOk \in BOOLEAN :
          /\ msg' = view_error_msg(errcode, strdupOk, mallocOk)
          /\ mpc' = IF mallocOk /\ strdupOk THEN "done" ELSE "done_nomem"
    /\ UNCHANGED errcode
    /\ UNCHANGED <<codecVars, dedupVars, driverVars>>

MsgNext == CallViewErrorMsg

(***************************************************************************)
(* The specifications.                                                     *)
(***************************************************************************)
InitCodec ==
    /\ merge_ctx \in [type : RecordTypes]
    /\ hostLE \in BOOLEAN
    /\ rec \in {Record(op, k, v) : op \in OpCodes,
                                   k \in SeqsUpTo(KeyBytes, MaxKeyLen),
                                   v \in SeqsUpTo(KeyBytes, MaxValLen)}
    /\ file = <<>>
    /\ wire = [len |-> 0, klen |-> 0]
    /\ wres = FILE_MERGER_SUCCESS
    /\ renv = [devErr |-> FALSE, mallocOk |-> TRUE]
    /\ rres = NoRead
    /\ cpc = "start"
    /\ runs = <<>>
    /\ heads = <<>>
    /\ output = <<>>
    /\ dedupCall = NoCall
    /\ sorterCall = NoCall
    /\ dpc = "idle"
    /\ stdin = [data |-> <<>>, pos |-> 0, closed |-> TRUE]
    /\ ctl = [sel |-> "", kind |-> "none", n |-> 0, lines |-> 0]
    /\ abortSent = FALSE
    /\ pc = "idle"
    /\ view_file_type = ""
    /\ num_files = 0
    /\ view_files = <<>>
    /\ dest_file = <<>>
    /\ status = 0
    /\ error = FILE_MERGER_SUCCESS
    /\ listener = "none"
    /\ lbuf = <<>>
    /\ proc = "idle"
    /\ exit_status = 0
    /\ exitedBy = "none"
    /\ cause = "none"
    /\ mergeCalls = 0
    /\ renameCalls = 0
    /\ renamed = FALSE
    /\ destWrites = 0
    /\ errcode = COUCHSTORE_SUCCESS
    /\ msg = Message(TRUE, <<>>, FALSE)
    /\ mpc = "idle"

InitDedup ==
    /\ merge_ctx = [type |-> INITIAL_BUILD_VIEW_RECORD]
    /\ hostLE = TRUE
    /\ rec = NoRecord
    /\ file = <<>>
    /\ wire = [len |-> 0, klen |-> 0]
    /\ wres = FILE_MERGER_SUCCESS
    /\ renv = [devErr |-> FALSE, mallocOk |-> TRUE]
    /\ rres = NoRead
    /\ cpc = "idle"
    /\ \E n \in 2..MaxRuns :
          \E ks \in [1..n -> SortedKeySeqs] :
             /\ runs = [i \in 1..n |-> RunOf(i, ks[i])]
             /\ heads = [i \in 1..n |-> 0]
    /\ output = <<>>
    /\ dedupCall = NoCall
    /\ sorterCall = NoCall
    /\ dpc = "start"
    /\ stdin = [data |-> <<>>, pos |-> 0, closed |-> TRUE]
    /\ ctl = [sel |-> "", kind |-> "none", n |-> 0, lines |-> 0]
    /\ abortSent = FALSE
    /\ pc = "idle"
    /\ view_file_type = ""
    /\ num_files = 0
    /\ view_files = <<>>
    /\ dest_file = <<>>
    /\ status = 0
    /\ error = FILE_MERGER_SUCCESS
    /\ listener = "none"
    /\ lbuf = <<>>
    /\ proc = "idle"
    /\ exit_status = 0
    /\ exitedBy = "none"
    /\ cause = "none"
    /\ mergeCalls = 0
    /\ renameCalls = 0
    /\ renamed = FALSE
    /\ destWrites = 0
    /\ errcode = COUCHSTORE_SUCCESS
    /\ msg = Message(TRUE, <<>>, FALSE)
    /\ mpc = "idle"

InitMsg ==
    /\ merge_ctx = [type |-> INITIAL_BUILD_VIEW_RECORD]
    /\ hostLE = TRUE
    /\ rec = NoRecord
    /\ file = <<>>
    /\ wire = [len |-> 0, klen |-> 0]
    /\ wres = FILE_MERGER_SUCCESS
    /\ renv = [devErr |-> FALSE, mallocOk |-> TRUE]
    /\ rres = NoRead
    /\ cpc = "idle"
    /\ runs = <<>>
    /\ heads = <<>>
    /\ output = <<>>
    /\ dedupCall = NoCall
    /\ sorterCall = NoCall
    /\ dpc = "idle"
    /\ stdin = [data |-> <<>>, pos |-> 0, closed |-> TRUE]
    /\ ctl = [sel |-> "", kind |-> "none", n |-> 0, lines |-> 0]
    /\ abortSent = FALSE
    /\ pc = "idle"
    /\ view_file_type = ""
    /\ num_files = 0
    /\ view_files = <<>>
    /\ dest_file = <<>>
    /\ status = 0
    /\ error = FILE_MERGER_SUCCESS
    /\ listener = "none"
    /\ lbuf = <<>>
    /\ proc = "idle"
    /\ exit_status = 0
    /\ exitedBy = "none"
    /\ cause = "none"
    /\ mergeCalls = 0
    /\ renameCalls = 0
    /\ renamed = FALSE
    /\ destWrites = 0
    /\ errcode \in (0 - MaxStatus)..0
    /\ msg = Message(TRUE, <<>>, FALSE)
    /\ mpc = "start"

InitDriver ==
    /\ merge_ctx = [type |-> INITIAL_BUILD_VIEW_RECORD]
    /\ hostLE = TRUE
    /\ rec = NoRecord
    /\ file = <<>>
    /\ wire = [len |-> 0, klen |-> 0]
    /\ wres = FILE_MERGER_SUCCESS
    /\ renv = [devErr |-> FALSE, mallocOk |-> TRUE]
    /\ rres = NoRead
    /\ cpc = "idle"
    /\ runs = <<>>
    /\ heads = <<>>
    /\ output = <<>>
    /\ dedupCall = NoCall
    /\ sorterCall = NoCall
    /\ dpc = "idle"
    /\ ctl \in [sel : Selectors, kind : CountKinds, n : -1..MaxFiles,
                 lines : 0..(MaxFiles + 2)]
    /\ ctl.kind # "int" => ctl.n = 0
    /\ stdin = [data |-> ControlInput(ctl), pos |-> 0, closed |-> FALSE]
    /\ abortSent = FALSE
    /\ pc = "read_type"
    /\ view_file_type = ""
    /\ num_files = 0
    /\ view_files = <<>>
    /\ dest_file = <<>>
    /\ status = 0
    /\ error = FILE_MERGER_SUCCESS
    /\ listener = "none"
    /\ lbuf = <<>>
    /\ proc = "running"
    /\ exit_status = 0
    /\ exitedBy = "none"
    /\ cause = "none"
    /\ mergeCalls = 0
    /\ renameCalls = 0
    /\ renamed = FALSE
    /\ destWrites = 0
    /\ errcode = COUCHSTORE_SUCCESS
    /\ msg = Message(TRUE, <<>>, FALSE)
    /\ mpc = "idle"

SpecCodec == InitCodec /\ [][CodecNext]_vars

SpecDedup == InitDedup /\ [][DedupNext]_vars

SpecDriver == InitDriver /\ [][DriverNext]_vars

SpecMsg == InitMsg /\ [][MsgNext]_vars

(***************************************************************************)
(* Claims about the record codec (checked under SpecCodec).                *)
(***************************************************************************)
ReaderUndisturbed == ~renv.devErr /\ renv.mallocOk

UnderflowHeader ==
    wire.len < 2 + wire.klen
               + (IF merge_ctx.type = INCREMENTAL_UPDATE_VIEW_RECORD THEN 1 ELSE 0)

HeaderBytes ==
    4 + 2 + (IF merge_ctx.type = INCREMENTAL_UPDATE_VIEW_RECORD THEN 1 ELSE 0)

\* C1: a record written by write_view_record and read back by
\* read_view_record in the same mode comes back as a record (a positive
\* return, no EndOfInput, no error) with the same key bytes, the same value
\* bytes and, in INCREMENTAL_UPDATE mode, the same operation code; memory
\* and device are taken to work.
C1_RoundTrip ==
    (cpc = "read" /\ ReaderUndisturbed) =>
        /\ rres.ret > 0
        /\ ~rres.rec.none
        /\ VIEW_RECORD_KEY(rres.rec) = VIEW_RECORD_KEY(rec)
        /\ VIEW_RECORD_VAL(rres.rec) = VIEW_RECORD_VAL(rec)
        /\ rres.rec.vsize = rec.vsize
        /\ (merge_ctx.type = INCREMENTAL_UPDATE_VIEW_RECORD => rres.rec.op = rec.op)

\* C7: a stream that ends before any byte of a record reads as EndOfInput
\* (0); a stream that ends after at least one byte of a record and before
\* the record is complete reads as FILE_MERGER_ERROR_FILE_READ, wherever in
\* the record it ends.
C7_TruncatedIsReadError ==
    (cpc = "readtruncated" /\ ReaderUndisturbed) =>
        IF Len(file) = 0 THEN rres.ret = 0
        ELSE rres.ret = FILE_MERGER_ERROR_FILE_READ

\* C8: when the header's total_length is smaller than 2 + key_length (+ 1
\* with an operation byte), read_view_record returns an error and neither
\* allocates nor returns a record.
C8_NoUnderflow ==
    (cpc = "readforged" /\ ~renv.devErr /\ Len(file) >= HeaderBytes /\ UnderflowHeader) =>
        /\ rres.ret < 0
        /\ ~rres.malloced
        /\ rres.rec.none

(***************************************************************************)
(* Claims about the dedup callbacks (checked under SpecDedup).             *)
(***************************************************************************)
KeysOfRun(i) == {VIEW_RECORD_KEY(runs[i][j]) : j \in 1..Len(runs[i])}

InputKeys == UNION {KeysOfRun(i) : i \in 1..Len(runs)}

\* the largest run index that holds key k
LastRunWith(k) ==
    CHOOSE i \in 1..Len(runs) :
        /\ k \in KeysOfRun(i)
        /\ \A j \in 1..Len(runs) : k \in KeysOfRun(j) => j <= i

RecordOf(i, k) ==
    runs[i][CHOOSE j \in 1..Len(runs[i]) : VIEW_RECORD_KEY(runs[i][j]) = k]

DistinctFilenums(c) ==
    \A a, b \in 1..c.len : a # b => c.records[a].filenum # c.records[b].filenum

\* C2: after a merge of N >= 2 sorted runs with at most one record per key
\* each, the output holds exactly one record for every key of the inputs,
\* and it is the record of the run with the largest run index that has the
\* key; for every group of 2 or more candidates with distinct run indexes
\* dedup_view_records_merger returns the position of the candidate with the
\* largest run index.
C2_DedupCollapse ==
    /\ (dedupCall.len >= 2 /\ DistinctFilenums(dedupCall)) =>
          /\ dedupCall.pick \in 0..(dedupCall.len - 1)
          /\ \A j \in 1..dedupCall.len :
                dedupCall.records[j].filenum
                    <= dedupCall.records[dedupCall.pick + 1].filenum
    /\ dpc = "done" =>
          /\ Len(output) = Cardinality(InputKeys)
          /\ \A k \in InputKeys :
                \E p \in 1..Len(output) :
                   /\ VIEW_RECORD_KEY(output[p]) = k
                   /\ output[p] = RecordOf(LastRunWith(k), k)

\* a merge has ended in which a group of three candidates met and the
\* survivor was not the first of the group
C2_Witness ==
    /\ dpc = "done"
    /\ dedupCall.len >= 3
    /\ dedupCall.pick > 0
    /\ Len(output) >= 2

SorterOp(j) == sorterCall.records[j].record.op

SorterCase == sorterCall.len = 2 /\ SorterOp(1) # SorterOp(2)

\* C3 (as claimed): of two candidates with different operation codes,
\* dedup_view_records_sorter returns the position of the one whose operation
\* code is numerically smaller.
C3_SmallerOpWins ==
    SorterCase =>
        /\ sorterCall.pick \in {0, 1}
        /\ \A j \in 1..2 : SorterOp(sorterCall.pick + 1) <= SorterOp(j)

\* C3 (amended): of two candidates with different operation codes,
\* dedup_view_records_sorter returns the position (0 or 1) of the one whose
\* operation code is numerically larger, whichever order they come in.
C3_LargerOpWins ==
    SorterCase =>
        /\ sorterCall.pick \in {0, 1}
        /\ \A j \in 1..2 : SorterOp(sorterCall.pick + 1) >= SorterOp(j)

C3_Witness ==
    /\ SorterCase
    /\ SorterOp(1) < SorterOp(2)
    /\ sorterCall.pick = 1

(***************************************************************************)
(* Claims about the driver and the exit listener (checked under            *)
(* SpecDriver).                                                            *)
(***************************************************************************)
Exited == proc = "exited"

NoFileTouched ==
    mergeCalls = 0 /\ renameCalls = 0 /\ ~renamed /\ destWrites = 0

MalformedInput ==
    \/ ctl.sel \notin {"i", "v"}
    \/ ctl.kind # "int"
    \/ ctl.n <= 0

UnreadableLine == cause \in {"type_read", "num_read", "file_read", "dest_read"}

\* C5: when the selector is not 'i' or 'v', or N is missing or N <= 0, or an
\* input identifier line or the output identifier line cannot be read, the
\* process ends with status 1 and neither the merge engine nor rename() is
\* ever called: no output file is created or modified.
C5_MalformedRejected ==
    (MalformedInput \/ UnreadableLine \/ cause \in {"type_bad", "num_bad"}) =>
        /\ NoFileTouched
        /\ listener = "none"
        /\ Exited => exit_status = 1
        /\ pc = "finished" => status = 1

\* a run that lacked its output identifier line has ended
C5_Witness ==
    /\ Exited
    /\ cause = "dest_read"
    /\ ctl.sel = "v"
    /\ ctl.n = 2

DriverStatuses == {0, 1} \cup {MERGE_ERROR_CODE(e) : e \in EngineErrors}

\* C6 (as claimed): the status of a termination by the listener differs from
\* every status main can end with: 0, 1 and every 100 + engine error.
C6_AbortStatusDistinct ==
    exitedBy = "listener" => exit_status \notin DriverStatuses

\* C6 (amended): a termination by the listener has status 1: not 0 and not
\* 100 + an engine error, but the very status of every exit(1) in main.
C6_AbortStatusIsOne ==
    /\ exitedBy = "listener" =>
          /\ exit_status = 1
          /\ exit_status \notin {0} \cup {MERGE_ERROR_CODE(e) : e \in EngineErrors}
    /\ exitedBy = "exit" => exit_status = 1

C6_Witness ==
    /\ exitedBy = "listener"
    /\ Exited
    /\ abortSent

WellFormedInput ==
    /\ ctl.sel \in {"i", "v"}
    /\ ctl.kind = "int"
    /\ ctl.n >= 1
    /\ ctl.lines >= ctl.n + 1

ShortcutOutcome ==
    IF ctl.n = 1
    THEN /\ renameCalls = 1
         /\ mergeCalls = 0
         /\ exit_status = IF renamed THEN 0 ELSE 1
    ELSE /\ mergeCalls = 1
         /\ renameCalls = 0

C10_ErrorMsg ==
    mpc = "done" =>
        IF errcode = COUCHSTORE_SUCCESS THEN msg.null
        ELSE IF errcode = COUCHSTORE_ERROR_REDUCTION_TOO_LARGE
        THEN ~msg.null /\ msg.text = ReductionTooLarge
        ELSE ~msg.null /\ msg.text = sprintf_d(errcode)

====
